---- MODULE Spec2Model ----
(***************************************************************************)
(* Model of src/buyer_agent.py: the CobraBuyer and CobraSeller strategies  *)
(* and the two conversation drivers test_buyer_scenarios (buyer opens) and *)
(* test_seller_scenarios (seller opens).                                   *)
(*                                                                         *)
(* Multipliers are floats in the source.  They are modelled as a number of *)
(* eighths (7 stands for 0.875): eighths and their products with the       *)
(* integer prices of the model are exact in binary floating point, so      *)
(* int(price * mult) is exactly (price * eighths) \div 8 for the           *)
(* non-negative prices used here.                                          *)
(***************************************************************************)
EXTENDS Integers, Sequences, FiniteSets, TLC

VARIABLES
    scenario,           \* which driver runs: "buyer_first" | "seller_first" | "call"
    pc,                 \* position in the driver
    buyer_config,       \* CobraBuyer.config (numeric knobs)
    seller_config,      \* CobraSeller.config (numeric knobs)
    min_price,          \* CobraSeller.min_price
    opening_price,      \* CobraSeller.opening_price: << >> is None, <<p>> is p
    base_market_price,  \* Product.base_market_price
    quantity,           \* Product.quantity
    your_budget,        \* NegotiationContext.your_budget
    current_round,      \* NegotiationContext.current_round
    seller_offers,      \* NegotiationContext.seller_offers
    your_offers,        \* NegotiationContext.your_offers
    messages,           \* NegotiationContext.messages
    buyer_offer,        \* driver local
    seller_offer,       \* driver local
    status,             \* driver local (DealStatus of the buyer's last response)
    accepted            \* driver local (seller's last response accepted)

vars == <<scenario, pc, buyer_config, seller_config, min_price, opening_price,
          base_market_price, quantity, your_budget, current_round, seller_offers,
          your_offers, messages, buyer_offer, seller_offer, status, accepted>>

-----------------------------------------------------------------------------
(* Bounds of the model *)

MaxPrice == 50
MaxForceRound == 12

(* The round limit of both drivers' loops *)
MaxRounds == 10

Prices == {MaxPrice - 10 * k : k \in 0..3}
BasePrices == {MaxPrice - 10}
ForceRounds == {2, 6, MaxRounds, MaxForceRound}
SellerForceRounds == {3, MaxRounds, MaxForceRound}

BuyerConfigs ==
    [early_round_multiplier : {6, 7},
     mid_round_multiplier : {7, 8},
     accept_threshold_percentage : {7, 8},
     force_close_round : ForceRounds]

SellerConfigs ==
    [opening_multiplier : {8, 10},
     early_round_multiplier : {9, 10},
     mid_round_multiplier : {8, 9},
     force_close_round : SellerForceRounds]

-----------------------------------------------------------------------------
(* Helpers *)

Min(a, b) == IF a <= b THEN a ELSE b
Max(a, b) == IF a >= b THEN a ELSE b

(* int(x * mult), mult given in eighths; int() truncates toward zero *)
IntMul(x, mult) ==
    IF x * mult >= 0 THEN (x * mult) \div 8 ELSE -((-(x * mult)) \div 8)

Last(s) == s[Len(s)]

-----------------------------------------------------------------------------
(* CobraBuyer *)

generate_opening_offer(cfg, base, budget) ==
    LET offer == Min(IntMul(base, cfg.early_round_multiplier), budget)
    IN  [price |-> offer, msg |-> [phrase |-> "opening", price |-> offer]]

BuyerThreshold(cfg, base) == IntMul(base, cfg.accept_threshold_percentage)

(* Mutant: a seller price equal to the threshold is not accepted *)
BuyerAcceptsBelowThreshold(cfg, base, budget, seller_price) ==
    seller_price < BuyerThreshold(cfg, base) /\ seller_price <= budget

(* Mutant: the budget test of the acceptance rule is dropped *)
BuyerAcceptsThresholdOnly(cfg, base, budget, seller_price) ==
    seller_price <= BuyerThreshold(cfg, base)

BuyerAccepts(cfg, base, budget, seller_price) ==
    seller_price <= BuyerThreshold(cfg, base) /\ seller_price <= budget

(* Mutant: the final counter is not capped at the budget *)
BuyerFinalOfferUncapped(seller_price, budget) == seller_price

BuyerFinalOffer(seller_price, budget) == Min(seller_price, budget)

(* Mutant: the product is rounded to the nearest integer instead of truncated *)
BuyerCounterOfferRounded(seller_price, mult, budget) ==
    Min((seller_price * mult + 4) \div 8, budget)

BuyerCounterOffer(seller_price, mult, budget) == Min(IntMul(seller_price, mult), budget)

respond_to_seller_offer(cfg, base, budget, round_num, seller_price) ==
    IF BuyerAccepts(cfg, base, budget, seller_price)
    THEN [status |-> "accepted", price |-> seller_price,
          msg |-> [phrase |-> "deal_accepted", price |-> seller_price]]
    ELSE IF round_num >= cfg.force_close_round
    THEN LET final_offer == BuyerFinalOffer(seller_price, budget)
         IN  [status |-> "ongoing", price |-> final_offer,
              msg |-> [phrase |-> "final", price |-> final_offer]]
    ELSE IF round_num >= cfg.force_close_round - 3
    THEN LET counter_offer == BuyerCounterOffer(seller_price, cfg.mid_round_multiplier, budget)
         IN  [status |-> "ongoing", price |-> counter_offer,
              msg |-> [phrase |-> "mid_round", price |-> counter_offer]]
    ELSE LET counter_offer == BuyerCounterOffer(seller_price, cfg.early_round_multiplier, budget)
         IN  [status |-> "ongoing", price |-> counter_offer,
              msg |-> [phrase |-> "standard", price |-> counter_offer]]

-----------------------------------------------------------------------------
(* CobraSeller *)

(* Mutant: the opening price is rounded to the nearest integer *)
get_opening_price_rounded(cfg, base) ==
    LET p == (base * cfg.opening_multiplier + 4) \div 8
    IN  [price |-> p, msg |-> [phrase |-> "opening", price |-> p]]

get_opening_price(cfg, base) ==
    LET p == IntMul(base, cfg.opening_multiplier)
    IN  [price |-> p, msg |-> [phrase |-> "opening", price |-> p]]

(* Mutant: an offer equal to the minimum price is not accepted *)
SellerAcceptsStrict(minp, offer) == offer > minp

SellerAccepts(minp, offer) == offer >= minp

(* Mutant: the counter is never clamped to the opening price *)
ClampToOpeningNever(counter, opening) == counter

(* "if self.opening_price is not None: counter = min(counter, self.opening_price)" *)
ClampToOpening(counter, opening) ==
    IF opening # << >> THEN Min(counter, opening[1]) ELSE counter

(* Mutant: an accepting seller returns its minimum price, not the buyer's offer *)
respond_to_buyer_at_min_price(cfg, minp, opening, offer, round_num) ==
    IF SellerAccepts(minp, offer)
    THEN [price |-> minp, msg |-> [phrase |-> "deal", price |-> minp], accepted |-> TRUE]
    ELSE LET mult == IF round_num >= cfg.force_close_round THEN 8
                     ELSE IF round_num >= cfg.force_close_round - 3
                          THEN cfg.mid_round_multiplier
                          ELSE cfg.early_round_multiplier
             counter == Max(minp, IntMul(offer, mult))
         IN  [price |-> ClampToOpening(counter, opening),
              msg |-> [phrase |-> "counter", price |-> counter],
              accepted |-> FALSE]

respond_to_buyer(cfg, minp, opening, offer, round_num) ==
    IF SellerAccepts(minp, offer)
    THEN [price |-> offer, msg |-> [phrase |-> "deal", price |-> offer], accepted |-> TRUE]
    ELSE IF round_num >= cfg.force_close_round
    THEN LET counter == Max(minp, offer)
         IN  [price |-> ClampToOpening(counter, opening),
              msg |-> [phrase |-> "force_close", price |-> counter],
              accepted |-> FALSE]
    ELSE IF round_num >= cfg.force_close_round - 3
    THEN LET counter == Max(minp, IntMul(offer, cfg.mid_round_multiplier))
         IN  [price |-> ClampToOpening(counter, opening),
              msg |-> [phrase |-> "mid_round", price |-> counter],
              accepted |-> FALSE]
    ELSE LET counter == Max(minp, IntMul(offer, cfg.early_round_multiplier))
         IN  [price |-> ClampToOpening(counter, opening),
              msg |-> [phrase |-> "early_round", price |-> counter],
              accepted |-> FALSE]

-----------------------------------------------------------------------------
(* The drivers *)

(* Mutant: the loop runs one round too many *)
LoopConditionOffByOne(acc, round_num) == ~acc /\ round_num <= MaxRounds

(* Mutant: the loop does not stop on the seller's acceptance *)
LoopConditionIgnoresAccepted(acc, round_num) == round_num < MaxRounds

(* "while not accepted and context.current_round < 10" *)
LoopCondition(acc, round_num) == ~acc /\ round_num < MaxRounds

Init ==
    /\ scenario \in {"buyer_first", "seller_first"}
    /\ pc = "open"
    /\ buyer_config \in BuyerConfigs
    /\ seller_config \in SellerConfigs
    /\ min_price \in Prices
    /\ opening_price = << >>
    /\ base_market_price \in BasePrices
    /\ quantity = 100
    /\ your_budget \in Prices
    /\ current_round = 1
    /\ seller_offers = << >>
    /\ your_offers = << >>
    /\ messages = << >>
    /\ buyer_offer = 0
    /\ seller_offer = 0
    /\ status = "unset"
    /\ accepted = FALSE

Static == <<scenario, buyer_config, seller_config, min_price, base_market_price,
            quantity, your_budget>>

(* One call of buyer_agent.respond_to_seller_offer and the recording of its result *)
BuyerResponds(next_pc, accepted_pc) ==
    LET r == respond_to_seller_offer(buyer_config, base_market_price, your_budget,
                                     current_round, seller_offer)
    IN  /\ status' = r.status
        /\ buyer_offer' = r.price
        /\ your_offers' = Append(your_offers, r.price)
        /\ messages' = Append(messages, [role |-> "buyer", message |-> r.msg])
        /\ pc' = IF r.status = "accepted" THEN accepted_pc ELSE next_pc
        /\ UNCHANGED <<Static, opening_price, current_round, seller_offers,
                       seller_offer, accepted>>

(* Mutant: the seller's message is not added to the transcript *)
SellerRespondsNoMessage(next_pc, accepted_pc) ==
    LET r == respond_to_buyer(seller_config, min_price, opening_price,
                              buyer_offer, current_round)
    IN  /\ seller_offer' = r.price
        /\ accepted' = r.accepted
        /\ seller_offers' = Append(seller_offers, r.price)
        /\ pc' = IF r.accepted THEN accepted_pc ELSE next_pc
        /\ UNCHANGED <<Static, opening_price, current_round, your_offers,
                       buyer_offer, status, messages>>

(* One call of seller_agent.respond_to_buyer and the recording of its result *)
SellerResponds(next_pc, accepted_pc) ==
    LET r == respond_to_buyer(seller_config, min_price, opening_price,
                              buyer_offer, current_round)
    IN  /\ seller_offer' = r.price
        /\ accepted' = r.accepted
        /\ seller_offers' = Append(seller_offers, r.price)
        /\ messages' = Append(messages, [role |-> "seller", message |-> r.msg])
        /\ pc' = IF r.accepted THEN accepted_pc ELSE next_pc
        /\ UNCHANGED <<Static, opening_price, current_round, your_offers,
                       buyer_offer, status>>

(* test_buyer_scenarios *)

BuyerFirstOpen ==
    /\ scenario = "buyer_first" /\ pc = "open"
    /\ LET r == generate_opening_offer(buyer_config, base_market_price, your_budget)
       IN  /\ buyer_offer' = r.price
           /\ your_offers' = Append(your_offers, r.price)
           /\ messages' = Append(messages, [role |-> "buyer", message |-> r.msg])
    /\ pc' = "first_response"
    /\ UNCHANGED <<Static, opening_price, current_round, seller_offers,
                   seller_offer, status, accepted>>

BuyerFirstSellerResponds ==
    /\ scenario = "buyer_first" /\ pc = "first_response"
    /\ SellerResponds("loop", "loop")

BuyerFirstLoop ==
    /\ scenario = "buyer_first" /\ pc = "loop"
    /\ LoopCondition(accepted, current_round)
    /\ current_round' = current_round + 1
    /\ pc' = "buyer_turn"
    /\ UNCHANGED <<Static, opening_price, seller_offers, your_offers, messages,
                   buyer_offer, seller_offer, status, accepted>>

BuyerFirstBuyerTurn ==
    /\ scenario = "buyer_first" /\ pc = "buyer_turn"
    /\ BuyerResponds("seller_turn", "done")

BuyerFirstSellerTurn ==
    /\ scenario = "buyer_first" /\ pc = "seller_turn"
    /\ SellerResponds("loop", "done")

(* test_seller_scenarios *)

SellerFirstOpen ==
    /\ scenario = "seller_first" /\ pc = "open"
    /\ LET r == get_opening_price(seller_config, base_market_price)
       IN  /\ opening_price' = <<r.price>>
           /\ seller_offer' = r.price
           /\ seller_offers' = Append(seller_offers, r.price)
           /\ messages' = Append(messages, [role |-> "seller", message |-> r.msg])
    /\ pc' = "first_response"
    /\ UNCHANGED <<Static, current_round, your_offers, buyer_offer, status, accepted>>

SellerFirstBuyerResponds ==
    /\ scenario = "seller_first" /\ pc = "first_response"
    /\ BuyerResponds("loop", "done")

SellerFirstLoop ==
    /\ scenario = "seller_first" /\ pc = "loop"
    /\ LoopCondition(accepted, current_round)
    /\ current_round' = current_round + 1
    /\ pc' = "seller_turn"
    /\ UNCHANGED <<Static, opening_price, seller_offers, your_offers, messages,
                   buyer_offer, seller_offer, status, accepted>>

SellerFirstSellerTurn ==
    /\ scenario = "seller_first" /\ pc = "seller_turn"
    /\ SellerResponds("buyer_turn", "done")

SellerFirstBuyerTurn ==
    /\ scenario = "seller_first" /\ pc = "buyer_turn"
    /\ BuyerResponds("loop", "done")

(* Either loop ends: its condition is false *)
LoopExit ==
    /\ scenario \in {"buyer_first", "seller_first"} /\ pc = "loop"
    /\ ~LoopCondition(accepted, current_round)
    /\ pc' = "done"
    /\ UNCHANGED <<Static, opening_price, current_round, seller_offers, your_offers,
                   messages, buyer_offer, seller_offer, status, accepted>>

Next ==
    \/ BuyerFirstOpen
    \/ BuyerFirstSellerResponds
    \/ BuyerFirstLoop
    \/ BuyerFirstBuyerTurn
    \/ BuyerFirstSellerTurn
    \/ SellerFirstOpen
    \/ SellerFirstBuyerResponds
    \/ SellerFirstLoop
    \/ SellerFirstSellerTurn
    \/ SellerFirstBuyerTurn
    \/ LoopExit

Spec == Init /\ [][Next]_vars

(* The drivers are straight-line single-threaded code: a step that can run, runs *)
LiveSpec == Init /\ [][Next]_vars /\ WF_vars(Next)

-----------------------------------------------------------------------------
(* Sessions started on any product and budget, non-positive ones included:
   neither Product, NegotiationContext nor the strategies validate them *)

AnyInputInit ==
    /\ scenario \in {"buyer_first", "seller_first"}
    /\ pc = "open"
    /\ buyer_config \in BuyerConfigs
    /\ seller_config \in {c \in SellerConfigs : c.opening_multiplier = 10 /\
                                                 c.force_close_round = MaxRounds}
    /\ min_price \in {MaxPrice - 20, MaxPrice}
    /\ opening_price = << >>
    /\ base_market_price \in {0 - 8, 0, MaxPrice - 10}
    /\ quantity \in {0 - 1, 0, 100}
    /\ your_budget \in {0 - 10, 0, MaxPrice - 10}
    /\ current_round = 1
    /\ seller_offers = << >>
    /\ your_offers = << >>
    /\ messages = << >>
    /\ buyer_offer = 0
    /\ seller_offer = 0
    /\ status = "unset"
    /\ accepted = FALSE

AnyInputSpec == AnyInputInit /\ [][Next]_vars

-----------------------------------------------------------------------------
(* Single calls of the strategies' functions on arbitrary arguments *)

CallPrices == 0..(MaxPrice + 10)
CallRounds == 1..MaxForceRound

CallBasePrices == 1..MaxPrice
CallOpenings == {<< >>} \cup {<<p>> : p \in Prices}

(* What no call below reads or writes *)
CallIdle ==
    /\ scenario = "call"
    /\ quantity = 100
    /\ seller_offers = << >>
    /\ your_offers = << >>
    /\ messages = << >>
    /\ status = "unset"
    /\ accepted = FALSE

CallInitRespondToSellerOffer ==
    /\ CallIdle
    /\ pc = "call_respond_to_seller_offer"
    /\ buyer_config \in BuyerConfigs
    /\ seller_config = [opening_multiplier |-> 10, early_round_multiplier |-> 9,
                        mid_round_multiplier |-> 8, force_close_round |-> MaxRounds]
    /\ min_price = MaxPrice
    /\ opening_price = << >>
    /\ base_market_price \in BasePrices
    /\ your_budget \in Prices
    /\ current_round \in CallRounds
    /\ buyer_offer = 0
    /\ seller_offer \in CallPrices

CallInitRespondToBuyer ==
    /\ CallIdle
    /\ pc = "call_respond_to_buyer"
    /\ buyer_config = [early_round_multiplier |-> 7, mid_round_multiplier |-> 7,
                       accept_threshold_percentage |-> 7, force_close_round |-> MaxRounds]
    /\ seller_config \in {c \in SellerConfigs : c.opening_multiplier = 10}
    /\ min_price \in Prices
    /\ opening_price \in CallOpenings
    /\ base_market_price \in BasePrices
    /\ your_budget = MaxPrice
    /\ current_round \in CallRounds
    /\ buyer_offer \in CallPrices
    /\ seller_offer = 0

CallInitGetOpeningPrice ==
    /\ CallIdle
    /\ pc = "call_get_opening_price"
    /\ buyer_config = [early_round_multiplier |-> 7, mid_round_multiplier |-> 7,
                       accept_threshold_percentage |-> 7, force_close_round |-> MaxRounds]
    /\ seller_config \in SellerConfigs
    /\ min_price \in Prices
    /\ opening_price = << >>
    /\ base_market_price \in CallBasePrices
    /\ your_budget = MaxPrice
    /\ current_round = 1
    /\ buyer_offer = 0
    /\ seller_offer = 0

CallInit ==
    \/ CallInitRespondToSellerOffer
    \/ CallInitRespondToBuyer
    \/ CallInitGetOpeningPrice

CallRespondToSellerOffer ==
    /\ scenario = "call" /\ pc = "call_respond_to_seller_offer"
    /\ BuyerResponds("returned", "returned")

CallRespondToBuyer ==
    /\ scenario = "call" /\ pc = "call_respond_to_buyer"
    /\ SellerResponds("returned_respond_to_buyer", "returned_respond_to_buyer")

CallGetOpeningPrice ==
    /\ scenario = "call" /\ pc = "call_get_opening_price"
    /\ LET r == get_opening_price(seller_config, base_market_price)
       IN  /\ opening_price' = <<r.price>>
           /\ seller_offer' = r.price
           /\ seller_offers' = Append(seller_offers, r.price)
           /\ messages' = Append(messages, [role |-> "seller", message |-> r.msg])
    /\ pc' = "returned_get_opening_price"
    /\ UNCHANGED <<Static, current_round, your_offers, buyer_offer, status, accepted>>

CallNext ==
    \/ CallRespondToSellerOffer
    \/ CallRespondToBuyer
    \/ CallGetOpeningPrice

CallSpec == CallInit /\ [][CallNext]_vars

-----------------------------------------------------------------------------
(* Session states and outcome *)

DealMade == pc = "done" /\ (accepted \/ status = "accepted")
Exhausted == pc = "done" /\ ~accepted /\ status # "accepted"
FinalPrice == IF accepted THEN seller_offer ELSE buyer_offer
InSession == scenario \in {"buyer_first", "seller_first"}

-----------------------------------------------------------------------------
(* Claims *)

(* C1: whenever a deal is reached, the agreed price p satisfies
   seller_min_price <= p <= buyer_budget. *)
DealPriceWithinBounds ==
    DealMade => (min_price <= FinalPrice /\ FinalPrice <= your_budget)

(* C2: every price the buyer produces in a session (opening offer, counters
   and acceptances) is <= the buyer's budget. *)
BuyerPricesWithinBudget ==
    /\ \A i \in DOMAIN your_offers : your_offers[i] <= your_budget
    /\ buyer_offer <= your_budget

(* C2 witness: the buyer's final-phase counter answered a seller price above
   the budget and was capped at the budget. *)
BuyerFinalOfferCapped ==
    /\ InSession
    /\ Len(your_offers) >= 2
    /\ status = "ongoing"
    /\ current_round >= buyer_config.force_close_round
    /\ seller_offer > your_budget
    /\ Last(your_offers) = your_budget

(* C3: the sequence of buyer offers in your_offers is monotonically
   non-decreasing. *)
BuyerOffersNonDecreasing ==
    \A i, j \in DOMAIN your_offers : i < j => your_offers[i] <= your_offers[j]

(* C4: every price recorded in seller_offers is >= the seller's minimum
   price, also after the clamp to the opening price. *)
SellerOffersAtLeastMinPrice ==
    \A i \in DOMAIN seller_offers : seller_offers[i] >= min_price

(* C5: every seller price after the seller's first one is <= the seller's
   first price, whoever opened. *)
SellerNeverAboveFirstPrice ==
    \A i \in DOMAIN seller_offers : seller_offers[i] <= seller_offers[1]

(* C6: the sequence of seller prices in seller_offers is monotonically
   non-increasing. *)
SellerOffersNonIncreasing ==
    \A i, j \in DOMAIN seller_offers : i < j => seller_offers[i] >= seller_offers[j]

(* C7: if seller_min_price <= buyer_budget, seller_min_price <= the seller's
   opening price and both force_close_round <= 10, a finished session has
   ended with a deal, never exhausted. *)
ForceCloseConverges ==
    ( /\ pc = "done"
      /\ min_price <= your_budget
      /\ min_price <= get_opening_price(seller_config, base_market_price).price
      /\ buyer_config.force_close_round <= MaxRounds
      /\ seller_config.force_close_round <= MaxRounds )
    => DealMade

(* C8: 1 <= current_round <= 10 always; the round never decreases and grows
   by exactly 1, and only after a full buyer+seller exchange; each party makes
   at most 10 offers. *)
RoundCounterBounded ==
    /\ [](/\ 1 <= current_round /\ current_round <= MaxRounds
          /\ Len(your_offers) <= current_round
          /\ Len(seller_offers) <= current_round
          /\ Len(your_offers) >= current_round - 1
          /\ Len(seller_offers) >= current_round - 1)
    /\ [][current_round' # current_round =>
            /\ current_round' = current_round + 1
            /\ Len(your_offers) = current_round
            /\ Len(seller_offers) = current_round]_vars

(* C8 witness: a session that used all ten rounds, ten offers each. *)
TenRoundsPlayed ==
    /\ pc = "done"
    /\ current_round = MaxRounds
    /\ Len(your_offers) = MaxRounds
    /\ Len(seller_offers) = MaxRounds

(* C9: every session started at OPENING eventually ends, accepted or
   exhausted; it is exhausted only at round 10 and with no acceptance; after an
   acceptance or the end no offer or message is added and nothing changes. *)
SessionTerminates ==
    /\ (pc = "open") ~> (DealMade \/ Exhausted)
    /\ [](Exhausted => (current_round = MaxRounds /\ ~DealMade))
    /\ [][(accepted \/ status = "accepted") =>
            (/\ your_offers' = your_offers
             /\ seller_offers' = seller_offers
             /\ messages' = messages
             /\ current_round' = current_round)]_vars
    /\ [][pc = "done" => UNCHANGED vars]_vars

(* C9 witness: a session that ended exhausted at the round limit. *)
ExhaustedAtRoundLimit ==
    Exhausted /\ current_round = MaxRounds /\ Len(messages) = 2 * MaxRounds

(* C10: respond_to_seller_offer returns ACCEPTED iff seller_price <=
   floor(base_market_price * accept_threshold) and seller_price <= budget, and
   then returns seller_price as the price. *)
BuyerAcceptsIffCheapAndAffordable ==
    (scenario = "call" /\ pc = "returned") =>
        /\ (status = "accepted") <=>
              (/\ 8 * seller_offer <= base_market_price * buyer_config.accept_threshold_percentage
               /\ seller_offer <= your_budget)
        /\ status \in {"accepted", "ongoing"}
        /\ (status = "accepted") => (buyer_offer = seller_offer)

(* C10 witness: in the force-close round a seller price under the threshold
   but over the budget was answered with a counter, not accepted. *)
OverBudgetNotAcceptedAtForceClose ==
    /\ scenario = "call" /\ pc = "returned"
    /\ current_round >= buyer_config.force_close_round
    /\ 8 * seller_offer <= base_market_price * buyer_config.accept_threshold_percentage
    /\ seller_offer > your_budget
    /\ status = "ongoing"

(* C11: respond_to_buyer returns accepted = true iff buyer_offer >= min_price,
   whatever the round and the opening price, and then returns buyer_offer as
   the price. *)
SellerAcceptsIffAtLeastMinPrice ==
    (scenario = "call" /\ pc = "returned_respond_to_buyer") =>
        /\ accepted <=> (buyer_offer >= min_price)
        /\ accepted => (seller_offer = buyer_offer)

(* C11 witness: an offer exactly at the minimum price was accepted in the
   force-close phase although it is above the recorded opening price. *)
AcceptedAtMinPriceAboveOpening ==
    /\ scenario = "call" /\ pc = "returned_respond_to_buyer"
    /\ accepted
    /\ buyer_offer = min_price
    /\ current_round >= seller_config.force_close_round
    /\ opening_price # << >>
    /\ opening_price[1] < buyer_offer

(* The multiplier (in eighths) the buyer applies in round r: 1.0 in the final
   phase, mid in the late phase, early before *)
BuyerPhaseMultiplier ==
    IF current_round >= buyer_config.force_close_round THEN 8
    ELSE IF current_round >= buyer_config.force_close_round - 3
         THEN buyer_config.mid_round_multiplier
         ELSE buyer_config.early_round_multiplier

(* C13: when respond_to_seller_offer does not accept, the status is ONGOING
   and the counter is min(floor(seller_price * m), budget), m being 1 for
   r >= F, the mid multiplier for F-3 <= r < F and the early multiplier for
   r < F-3. *)
BuyerCounterByPhase ==
    (scenario = "call" /\ pc = "returned" /\ status # "accepted") =>
        /\ status = "ongoing"
        /\ buyer_offer <= your_budget
        /\ 8 * buyer_offer <= seller_offer * BuyerPhaseMultiplier
        /\ \/ buyer_offer = your_budget
           \/ seller_offer * BuyerPhaseMultiplier < 8 * (buyer_offer + 1)

(* C13 witness: a late-phase counter whose product was truncated and lies
   under the budget. *)
LatePhaseCounterTruncated ==
    /\ scenario = "call" /\ pc = "returned" /\ status = "ongoing"
    /\ current_round < buyer_config.force_close_round
    /\ current_round >= buyer_config.force_close_round - 3
    /\ (seller_offer * buyer_config.mid_round_multiplier) % 8 # 0
    /\ buyer_offer < your_budget

(* The multiplier (in eighths) the seller applies in round r *)
SellerPhaseMultiplier ==
    IF current_round >= seller_config.force_close_round THEN 8
    ELSE IF current_round >= seller_config.force_close_round - 3
         THEN seller_config.mid_round_multiplier
         ELSE seller_config.early_round_multiplier

(* C14: when respond_to_buyer does not accept, the returned price is
   max(min_price, floor(buyer_offer * m)) for the phase's multiplier m (1 in
   the final phase), then clamped to <= opening_price when one is set. *)
SellerCounterByPhase ==
    (scenario = "call" /\ pc = "returned_respond_to_buyer" /\ ~accepted) =>
        \E c \in 0..(2 * MaxPrice + 20) :
            /\ c >= min_price
            /\ 8 * c >= 8 * ((buyer_offer * SellerPhaseMultiplier) \div 8)
            /\ \/ c = min_price
               \/ 8 * c <= buyer_offer * SellerPhaseMultiplier
            /\ IF opening_price = << >>
               THEN seller_offer = c
               ELSE /\ seller_offer <= opening_price[1]
                    /\ seller_offer <= c
                    /\ seller_offer = c \/ seller_offer = opening_price[1]

(* C14 witness: an early-phase counter that the clamp cut down to the opening
   price. *)
EarlyCounterClamped ==
    /\ scenario = "call" /\ pc = "returned_respond_to_buyer" /\ ~accepted
    /\ current_round < seller_config.force_close_round - 3
    /\ opening_price # << >>
    /\ seller_offer = opening_price[1]
    /\ min_price <= opening_price[1]
    /\ (buyer_offer * seller_config.early_round_multiplier) \div 8 > opening_price[1]

(* C15 (as stated): the opening price is base_market_price *
   opening_multiplier rounded to the nearest integer. *)
OpeningPriceRoundedToNearest ==
    (scenario = "call" /\ pc = "returned_get_opening_price") =>
        /\ 8 * seller_offer - base_market_price * seller_config.opening_multiplier <= 4
        /\ base_market_price * seller_config.opening_multiplier - 8 * seller_offer <= 4

(* C15 (amended): the opening price is base_market_price *
   opening_multiplier truncated to an integer, and it is recorded as the
   seller's opening_price. *)
OpeningPriceTruncated ==
    (scenario = "call" /\ pc = "returned_get_opening_price") =>
        /\ 8 * seller_offer <= base_market_price * seller_config.opening_multiplier
        /\ base_market_price * seller_config.opening_multiplier < 8 * (seller_offer + 1)
        /\ opening_price = <<seller_offer>>

(* C15 witness: an opening price whose product has a fraction above one half,
   where rounding and truncation differ. *)
OpeningPriceFractionAboveHalf ==
    /\ scenario = "call" /\ pc = "returned_get_opening_price"
    /\ (base_market_price * seller_config.opening_multiplier) % 8 > 4

(* C20: the price rendered into the message returned by respond_to_buyer is
   the returned price, also when the counter is clamped. *)
SellerMessageQuotesReturnedPrice ==
    (scenario = "call" /\ pc = "returned_respond_to_buyer") =>
        Last(messages).message.price = seller_offer

(* The seller's opening price is within the buyer's threshold and budget *)
OpeningIsCheap ==
    /\ scenario = "seller_first"
    /\ Len(seller_offers) >= 1
    /\ 8 * seller_offers[1] <= base_market_price * buyer_config.accept_threshold_percentage
    /\ seller_offers[1] <= your_budget

(* C12: in a seller-first session whose opening price is <= floor(base *
   accept_threshold) and <= budget, the buyer accepts on its first response:
   the session ends accepted in round 1 at the opening price with exactly one
   seller offer and one buyer offer, and no later turn. *)
CheapOpeningAcceptedAtOnce ==
    /\ (OpeningIsCheap /\ pc = "first_response") ~> (DealMade /\ status = "accepted")
    /\ []((OpeningIsCheap /\ pc # "first_response") =>
            /\ pc = "done"
            /\ status = "accepted"
            /\ ~accepted
            /\ current_round = 1
            /\ Len(seller_offers) = 1
            /\ your_offers = seller_offers
            /\ FinalPrice = seller_offers[1]
            /\ Len(messages) = 2)

(* C12 witness: a seller-first session closed by the buyer in round 1. *)
OneRoundDeal ==
    /\ scenario = "seller_first" /\ pc = "done"
    /\ status = "accepted"
    /\ current_round = 1
    /\ Len(messages) = 2
    /\ your_offers = seller_offers

(* C16: every turn appends exactly one price to the turn's party's offers and
   one message tagged with that party to the transcript, and nothing else:
   len(messages) = len(your_offers) + len(seller_offers), consecutive messages
   alternate between buyer and seller, and recorded offers and messages are
   never changed or removed. *)
TranscriptAppendOnly ==
    /\ [](/\ Len(messages) = Len(your_offers) + Len(seller_offers)
          /\ \A i \in DOMAIN messages : messages[i].role \in {"buyer", "seller"}
          /\ \A i \in DOMAIN messages :
                i < Len(messages) => messages[i].role # messages[i + 1].role)
    /\ [][\/ /\ messages' = messages
             /\ your_offers' = your_offers
             /\ seller_offers' = seller_offers
             /\ pc \in {"loop", "done"}
          \/ /\ Len(your_offers') = Len(your_offers) + 1
             /\ SubSeq(your_offers', 1, Len(your_offers)) = your_offers
             /\ seller_offers' = seller_offers
             /\ Len(messages') = Len(messages) + 1
             /\ SubSeq(messages', 1, Len(messages)) = messages
             /\ Last(messages').role = "buyer"
          \/ /\ Len(seller_offers') = Len(seller_offers) + 1
             /\ SubSeq(seller_offers', 1, Len(seller_offers)) = seller_offers
             /\ your_offers' = your_offers
             /\ Len(messages') = Len(messages) + 1
             /\ SubSeq(messages', 1, Len(messages)) = messages
             /\ Last(messages').role = "seller"]_vars

(* C16 witness: a buyer-first session with a full transcript of twenty
   messages, closed by a deal. *)
FullTranscriptWithDeal ==
    /\ scenario = "buyer_first"
    /\ DealMade
    /\ Len(messages) = 2 * MaxRounds
    /\ Len(your_offers) = MaxRounds

(* C17: a session started with a non-positive base market price, quantity or
   budget is rejected before any offer is produced: it records no offer and
   no message. *)
InvalidSessionRecordsNothing ==
    (base_market_price <= 0 \/ quantity <= 0 \/ your_budget <= 0) =>
        /\ your_offers = << >>
        /\ seller_offers = << >>
        /\ messages = << >>

(* C19: once a respond call has accepted, the final price is the price that
   call returned and equals the other party's most recent offer, so the last
   elements of your_offers and seller_offers agree; no offer or message is
   appended afterwards. *)
AcceptedAtLastOffer ==
    /\ []((accepted \/ status = "accepted") =>
            /\ Last(your_offers) = Last(seller_offers)
            /\ FinalPrice = Last(your_offers)
            /\ accepted => (Last(messages).role = "seller" /\ seller_offer = buyer_offer)
            /\ (status = "accepted") =>
                  (Last(messages).role = "buyer" /\ buyer_offer = seller_offer))
    /\ [][(accepted \/ status = "accepted") =>
            (/\ your_offers' = your_offers
             /\ seller_offers' = seller_offers
             /\ messages' = messages)]_vars

(* C19 witness: the seller closed the deal, after several rounds, on a buyer
   offer above its minimum price. *)
SellerAcceptedAboveMinPrice ==
    /\ DealMade /\ accepted
    /\ Len(seller_offers) >= 3
    /\ Last(seller_offers) = Last(your_offers)
    /\ Last(seller_offers) > min_price

====
